---- MODULE Spec2Model ----
(***************************************************************************)
(* Model of the Electrolux PO12F A/C remote codec, class                   *)
(* IRElectroluxPO12FAC (src/src/ir_Electrolux.h, src/src/ir_Electrolux.cpp)*)
(*                                                                         *)
(* The object's state is the 14-byte command frame `_` (the union          *)
(* ElectroluxPO12FProtocol).  A frame is a function 0..13 -> 0..255; the   *)
(* bit-fields of the union are read and written by shift and mask, least   *)
(* significant bit first (the layout of the compilers the library targets).*)
(* Celsius values are floats with a declared resolution of 0.5 degrees;    *)
(* they are modelled as integers counting half degrees (48 is 24.0 C).     *)
(***************************************************************************)
EXTENDS Integers, Sequences, FiniteSets, TLC

VARIABLES
  raw,    \* _.raw, the command frame
  op,     \* name of the last member function called
  arg,    \* argument of the last call (NoArg when it takes none)
  ret,    \* value returned by the last call (NoArg for void)
  calls,  \* number of calls made so far / position in a call script
  hist    \* arguments of the scripted calls made so far (SpecCommon only)

vars == <<raw, op, arg, ret, calls, hist>>

\* ------------------------------------------------------------------ bounds
\* Longest call sequence explored after construction.
MaxCalls == 3

\* ------------------------------------------------------------- constants
kElectroluxPO12FACStateLength == 14

\* Half-degree steps per degree Celsius ("Celsius in 0.5 increments").
HalfSteps == 2

kElectroluxPO12FACDefaultState ==
  [i \in 0..13 |->
     <<35, 203, 38, 1, 0, 36, 3, 5, 2, 0, 0, 27, 3, 97>>[i + 1]]

kElectroluxPO12FACHeat == 1
kElectroluxPO12FACDry  == 2
kElectroluxPO12FACCool == 3
kElectroluxPO12FACFan  == 7
kElectroluxPO12FACAuto == 8

kElectroluxPO12FACFanAuto == 0
kElectroluxPO12FACFanLow  == 2
kElectroluxPO12FACFanMed  == 3
kElectroluxPO12FACFanHigh == 5
kElectroluxPO12FACFanEco  == 1

kElectroluxPO12FACTempMax == 28
kElectroluxPO12FACTempMin == 18

NoArg == "void"

\* ------------------------------------------------------ the frame layout
\* One descriptor per bit-field of union ElectroluxPO12FProtocol.
Power         == [byte |-> 5,  off |-> 2, width |-> 1]
Mode          == [byte |-> 6,  off |-> 0, width |-> 4]
Turbo         == [byte |-> 6,  off |-> 6, width |-> 1]
Follow        == [byte |-> 6,  off |-> 7, width |-> 1]
Temp          == [byte |-> 7,  off |-> 0, width |-> 4]
Fan           == [byte |-> 8,  off |-> 0, width |-> 3]
Swing         == [byte |-> 8,  off |-> 3, width |-> 3]
OffSleepTimer == [byte |-> 9,  off |-> 0, width |-> 8]
Sum           == [byte |-> 13, off |-> 0, width |-> 8]

\* Reading a bit-field: shift and mask.
Get(s, f) == (s[f.byte] \div (2 ^ f.off)) % (2 ^ f.width)

\* Assigning a bit-field: the value is truncated to the field's width and
\* the other bits of the byte are kept.
Put(s, f, v) ==
  [s EXCEPT ![f.byte] =
     @ - Get(s, f) * (2 ^ f.off) + (v % (2 ^ f.width)) * (2 ^ f.off)]

\* bool -> integer conversion of an assignment such as `_.Power = on`.
BoolToInt(b) == IF b THEN 1 ELSE 0

MinOf(a, b) == IF a < b THEN a ELSE b
MaxOf(a, b) == IF a > b THEN a ELSE b

\* ------------------------------------------------------------- checksum
\* sumBytes(start, length): the 8-bit sum of the first `length` bytes.
RECURSIVE sumBytes(_, _)
sumBytes(state, length) ==
  IF length = 0 THEN 0
  ELSE (sumBytes(state, length - 1) + state[length - 1]) % 256

\* Variant: the sum runs over the checksum slot as well.
calcChecksumWholeFrame(state, length) ==
  IF length # 0 THEN sumBytes(state, length) ELSE 0

calcChecksum(state, length) ==
  IF length # 0 THEN sumBytes(state, length - 1) ELSE 0

checksum(s, length) ==
  IF length > 1 THEN Put(s, Sum, calcChecksum(s, length)) ELSE s

validChecksum(state, length) ==
  length > 1 /\ state[length - 1] = calcChecksum(state, length)

\* ------------------------------------------------- frame-level operations
stateResetFrame == kElectroluxPO12FACDefaultState

getRawFrame(s) == checksum(s, kElectroluxPO12FACStateLength)

\* Variant: the whole frame is copied whatever the length given.
setRawWholeFrame(s, new_code, length) ==
  [i \in 0..13 |-> new_code[i]]

\* memcpy(_.raw, new_code, min(length, 14))
setRawFrame(s, new_code, length) ==
  [i \in 0..13 |->
     IF i < MinOf(length, kElectroluxPO12FACStateLength)
       THEN new_code[i] ELSE s[i]]

\* Variant: the whole of byte 5 is written instead of the Power bit.
setPowerWholeByte(s, on) == [s EXCEPT ![5] = BoolToInt(on) * 4]

setPowerF(s, on) == Put(s, Power, BoolToInt(on))
getPower(s) == Get(s, Power) # 0

getMode(s) == Get(s, Mode)

setFanF(s, speed) ==
  IF speed \in {kElectroluxPO12FACFanAuto, kElectroluxPO12FACFanLow,
                kElectroluxPO12FACFanMed, kElectroluxPO12FACFanHigh}
    THEN Put(s, Fan, speed)
    ELSE Put(s, Fan, kElectroluxPO12FACFanAuto)

getFan(s) == Get(s, Fan)

\* Variant: no default branch, the requested value is stored as given.
setModeUnchecked(s, mode) ==
  IF mode = kElectroluxPO12FACFan
    THEN Put(setFanF(s, kElectroluxPO12FACFanHigh), Mode, mode)
    ELSE Put(s, Mode, mode)

\* Variant: the Fan case has no setFan(High) before falling through.
setModeNoFanForce(s, mode) ==
  IF mode \in {kElectroluxPO12FACFan, kElectroluxPO12FACAuto,
               kElectroluxPO12FACCool, kElectroluxPO12FACHeat,
               kElectroluxPO12FACDry}
    THEN Put(s, Mode, mode)
    ELSE Put(s, Mode, kElectroluxPO12FACAuto)

setModeF(s, mode) ==
  IF mode = kElectroluxPO12FACFan
    THEN Put(setFanF(s, kElectroluxPO12FACFanHigh), Mode, mode)
  ELSE IF mode \in {kElectroluxPO12FACAuto, kElectroluxPO12FACCool,
                    kElectroluxPO12FACHeat, kElectroluxPO12FACDry}
    THEN Put(s, Mode, mode)
    ELSE Put(s, Mode, kElectroluxPO12FACAuto)

\* celsius is in half degrees.  The float expression Max - safe + 3 is
\* non-negative, so the cast to uint8_t truncates it downwards.
setTempF(s, celsius) ==
  LET lo   == MaxOf(celsius, kElectroluxPO12FACTempMin * HalfSteps)
      safe == MinOf(lo, kElectroluxPO12FACTempMax * HalfSteps)
  IN  Put(s, Temp,
          ((kElectroluxPO12FACTempMax * HalfSteps - safe + 3 * HalfSteps)
             \div HalfSteps) % 256)

\* result in half degrees
getTemp(s) == (kElectroluxPO12FACTempMax + Get(s, Temp) - 3) * HalfSteps

\* Variant: econo off puts the fan back to Auto.
setEconoClears(s, on) ==
  IF on THEN Put(s, Fan, kElectroluxPO12FACFanEco)
        ELSE Put(s, Fan, kElectroluxPO12FACFanAuto)

setEconoF(s, on) ==
  IF on THEN Put(s, Fan, kElectroluxPO12FACFanEco) ELSE s

getEcono(s) == Get(s, Fan) = kElectroluxPO12FACFanEco

setSwingF(s, on) == Put(s, Swing, BoolToInt(on))
getSwing(s) == Get(s, Swing) # 0

setTurboF(s, on) ==
  LET t == Put(s, Turbo, BoolToInt(on))
  IN  IF on
        THEN setTempF(Put(t, Fan, kElectroluxPO12FACFanHigh),
                      18 * HalfSteps)
        ELSE t

getTurbo(s) == Get(s, Turbo) # 0

setFollowF(s, on) == Put(s, Follow, BoolToInt(on))
getFollow(s) == Get(s, Follow) # 0

\* Variant: the hours are stored unscaled.
setOffSleepTimerUnscaled(s, hours) == Put(s, OffSleepTimer, hours)

setOffSleepTimerF(s, hours) == Put(s, OffSleepTimer, hours * 6)
getOffSleepTimer(s) == Get(s, OffSleepTimer)

\* ------------------------------------------------------ interop adapter
\* Values of stdAc::opmode_t and stdAc::fanspeed_t are written as their
\* enumerator names ("kCool", "kMax", ...).

convertMode(mode) ==
  CASE mode = "kCool" -> kElectroluxPO12FACCool
    [] mode = "kHeat" -> kElectroluxPO12FACHeat
    [] mode = "kDry"  -> kElectroluxPO12FACDry
    [] mode = "kFan"  -> kElectroluxPO12FACFan
    [] OTHER          -> kElectroluxPO12FACAuto

convertFan(speed) ==
  CASE speed \in {"kMin", "kLow"}  -> kElectroluxPO12FACFanLow
    [] speed = "kMedium"           -> kElectroluxPO12FACFanMed
    [] speed \in {"kHigh", "kMax"} -> kElectroluxPO12FACFanHigh
    [] OTHER                       -> kElectroluxPO12FACFanAuto

toCommonMode(mode) ==
  CASE mode = kElectroluxPO12FACCool -> "kCool"
    [] mode = kElectroluxPO12FACHeat -> "kHeat"
    [] mode = kElectroluxPO12FACDry  -> "kDry"
    [] mode = kElectroluxPO12FACFan  -> "kFan"
    [] OTHER                         -> "kAuto"

toCommonFanSpeed(spd) ==
  CASE spd = kElectroluxPO12FACFanHigh -> "kMax"
    [] spd = kElectroluxPO12FACFanMed  -> "kMedium"
    [] spd = kElectroluxPO12FACFanLow  -> "kMin"
    [] OTHER                           -> "kAuto"

\* The stdAc::state_t built by toCommon(); degrees in half degrees.
toCommonState(s) ==
  [protocol |-> "ELECTROLUX_PO12F_AC",
   model    |-> -1,
   power    |-> Get(s, Power) # 0,
   mode     |-> toCommonMode(Get(s, Mode)),
   celsius  |-> TRUE,
   degrees  |-> getTemp(s),
   fanspeed |-> toCommonFanSpeed(Get(s, Fan)),
   swingv   |-> IF Get(s, Swing) # 0 THEN "kAuto" ELSE "kOff",
   swingh   |-> IF Get(s, Swing) # 0 THEN "kAuto" ELSE "kOff",
   turbo    |-> Get(s, Turbo) # 0,
   econo    |-> getEcono(s),
   sleep    |-> Get(s, OffSleepTimer),
   light    |-> FALSE,
   filter   |-> FALSE,
   quiet    |-> FALSE,
   clean    |-> FALSE,
   beep     |-> FALSE,
   clock    |-> -1]

\* ------------------------------------------------------- argument sets
\* Source buffers handed to setRaw (each at least 14 bytes long): the
\* shipped default frame, an all-ones buffer (wrong checksum, Mode 15,
\* Fan 7) and a 16-byte capture with a valid frame in its first 14 bytes.
Buffers ==
  { kElectroluxPO12FACDefaultState,
    [i \in 0..13 |-> 255],
    [i \in 0..15 |->
       <<35, 203, 38, 1, 0, 32, 193, 12, 61, 12, 0, 27, 3, 75, 170, 85>>[i + 1]] }

BufLen(b) == Cardinality(DOMAIN b)

Lengths  == {0, 1, 9, 14, 16}
ModeArgs == (0..9) \cup {19, 23, 255}
FanArgs  == (0..7) \cup {10, 13, 255}
\* half degrees: -1.0, 17.0, 18.0, 18.5, 24.0, 24.5, 28.0, 30.0
TempArgs == {-2, 34, 36, 37, 48, 49, 56, 60}
HourArgs == {0, 3, 43}
Bytes    == 0..255

\* ------------------------------------------------------------- actions
Done(o, a, r) == op' = o /\ arg' = a /\ ret' = r

stateReset ==
  /\ raw' = stateResetFrame
  /\ Done("stateReset", NoArg, NoArg)

getRaw ==
  /\ raw' = getRawFrame(raw)
  /\ Done("getRaw", NoArg, getRawFrame(raw))

\* new_code must hold the bytes memcpy reads.
setRaw(new_code, length) ==
  /\ BufLen(new_code) >= MinOf(length, kElectroluxPO12FACStateLength)
  /\ raw' = setRawFrame(raw, new_code, length)
  /\ Done("setRaw", <<new_code, length>>, NoArg)

setPower(on) ==
  /\ raw' = setPowerF(raw, on)
  /\ Done("setPower", on, NoArg)

setMode(mode) ==
  /\ raw' = setModeF(raw, mode)
  /\ Done("setMode", mode, NoArg)

setTemp(celsius) ==
  /\ raw' = setTempF(raw, celsius)
  /\ Done("setTemp", celsius, NoArg)

setFan(speed) ==
  /\ raw' = setFanF(raw, speed)
  /\ Done("setFan", speed, NoArg)

setEcono(on) ==
  /\ raw' = setEconoF(raw, on)
  /\ Done("setEcono", on, NoArg)

setSwing(on) ==
  /\ raw' = setSwingF(raw, on)
  /\ Done("setSwing", on, NoArg)

setTurbo(on) ==
  /\ raw' = setTurboF(raw, on)
  /\ Done("setTurbo", on, NoArg)

setFollow(on) ==
  /\ raw' = setFollowF(raw, on)
  /\ Done("setFollow", on, NoArg)

setOffSleepTimer(hours) ==
  /\ raw' = setOffSleepTimerF(raw, hours)
  /\ Done("setOffSleepTimer", hours, NoArg)

\* const member: reads the frame, writes nothing.
toCommon ==
  /\ UNCHANGED raw
  /\ Done("toCommon", NoArg, toCommonState(raw))

\* ------------------------------------------------------- specifications
\* The constructor runs stateReset().
Init ==
  /\ raw = stateResetFrame
  /\ op = "stateReset"
  /\ arg = NoArg
  /\ ret = NoArg
  /\ calls = 0
  /\ hist = <<>>

\* One more call of an arbitrary call sequence.
Bounded(A) ==
  /\ calls < MaxCalls
  /\ A
  /\ calls' = calls + 1
  /\ UNCHANGED hist

\* Any client: every member function, any argument.
Next ==
  \/ Bounded(stateReset)
  \/ Bounded(getRaw)
  \/ \E b \in Buffers, l \in Lengths : Bounded(setRaw(b, l))
  \/ \E on \in BOOLEAN : Bounded(setPower(on))
  \/ \E m \in ModeArgs : Bounded(setMode(m))
  \/ \E c \in TempArgs : Bounded(setTemp(c))
  \/ \E f \in FanArgs : Bounded(setFan(f))
  \/ \E on \in BOOLEAN : Bounded(setEcono(on))
  \/ \E on \in BOOLEAN : Bounded(setSwing(on))
  \/ \E on \in BOOLEAN : Bounded(setTurbo(on))
  \/ \E on \in BOOLEAN : Bounded(setFollow(on))
  \/ \E h \in HourArgs : Bounded(setOffSleepTimer(h))
  \/ Bounded(toCommon)

Spec == Init /\ [][Next]_vars

\* A client that never calls setRaw: reset, getRaw and the field setters.
NextFields ==
  \/ Bounded(stateReset)
  \/ Bounded(getRaw)
  \/ \E on \in BOOLEAN : Bounded(setPower(on))
  \/ \E m \in ModeArgs : Bounded(setMode(m))
  \/ \E c \in TempArgs : Bounded(setTemp(c))
  \/ \E f \in FanArgs : Bounded(setFan(f))
  \/ \E on \in BOOLEAN : Bounded(setEcono(on))
  \/ \E on \in BOOLEAN : Bounded(setSwing(on))
  \/ \E on \in BOOLEAN : Bounded(setTurbo(on))
  \/ \E on \in BOOLEAN : Bounded(setFollow(on))
  \/ \E h \in HourArgs : Bounded(setOffSleepTimer(h))

SpecFields == Init /\ [][NextFields]_vars

\* A client of the sleep timer: every 8-bit argument of the setter.
NextTimer ==
  \/ Bounded(stateReset)
  \/ Bounded(getRaw)
  \/ \E h \in Bytes : Bounded(setOffSleepTimer(h))

SpecTimer == Init /\ [][NextTimer]_vars

\* The round-trip script setSwing(s); setPower(p); setMode(m); setTemp(t);
\* toCommon(), repeated from whatever frame the previous round left.  calls is the
\* position in the script and hist the arguments given in this round.
Scripted(i, A, h) ==
  /\ calls = i
  /\ A
  /\ calls' = (i + 1) % 5
  /\ hist' = h

NextCommon ==
  \/ \E on \in BOOLEAN : Scripted(0, setSwing(on), <<>>)
  \/ \E p \in BOOLEAN : Scripted(1, setPower(p), <<p>>)
  \/ \E m \in ModeArgs : Scripted(2, setMode(m), Append(hist, m))
  \/ \E t \in TempArgs : Scripted(3, setTemp(t), Append(hist, t))
  \/ Scripted(4, toCommon, hist)

SpecCommon == Init /\ [][NextCommon]_vars

\* --------------------------------------------------------------- claims
ValidModes == {kElectroluxPO12FACAuto, kElectroluxPO12FACCool,
               kElectroluxPO12FACHeat, kElectroluxPO12FACDry,
               kElectroluxPO12FACFan}
ValidFans  == {kElectroluxPO12FACFanAuto, kElectroluxPO12FACFanEco,
               kElectroluxPO12FACFanLow, kElectroluxPO12FACFanMed,
               kElectroluxPO12FACFanHigh}

Clamp(x, lo, hi) == MinOf(MaxOf(x, lo), hi)

\* Sum modulo 256 of bytes 0..12 of a buffer, written out.
SumOfFirst13(b) ==
  (b[0] + b[1] + b[2] + b[3] + b[4] + b[5] + b[6] + b[7] + b[8] + b[9]
     + b[10] + b[11] + b[12]) % 256

\* A step of the client is a call of member function f.
CallOf(f) == op' = f /\ calls' # calls

\* C1: the buffer getRaw() returns, after any sequence of reset, setRaw and
\* field-setter calls, has byte 13 equal to the sum modulo 256 of its bytes
\* 0..12: validChecksum(getRaw(), 14) is true and calcChecksum(getRaw(), 14)
\* equals its last byte.
C1_GetRawChecksum ==
  op = "getRaw" =>
    /\ ret = raw
    /\ ret[13] = SumOfFirst13(ret)
    /\ validChecksum(ret, 14)
    /\ calcChecksum(ret, 14) = ret[13]

\* getRaw() was called on a frame a setRaw of the all-ones buffer left with
\* a wrong checksum, and returned it with the checksum 243 of 13 bytes 255.
C1_Witness ==
  /\ op = "getRaw"
  /\ calls >= 2
  /\ ret[12] = 255
  /\ ret[13] = 243

\* C2: for every whole-degree Celsius input x, also below 18 and above 28,
\* setTemp(x) followed by getTemp() returns clamp(x, 18, 28).
C2_TempRoundTrip ==
  (op = "setTemp" /\ arg % HalfSteps = 0) =>
    getTemp(raw) = Clamp(arg, kElectroluxPO12FACTempMin * HalfSteps,
                         kElectroluxPO12FACTempMax * HalfSteps)

\* C3: from reset(), after any sequence of field-setter calls, getMode() is
\* one of the five mode values and getFan() one of Auto, Eco, Low, Med,
\* High; setMode(v) with v not a mode value leaves getMode() = Auto and
\* setFan(v) with v outside Auto, Low, Med, High leaves getFan() = Auto.
C3_ModeFanEnumerated ==
  /\ getMode(raw) \in {1, 2, 3, 7, 8}
  /\ getFan(raw) \in {0, 1, 2, 3, 5}
  /\ (op = "setMode" /\ arg \notin ValidModes) =>
       getMode(raw) = kElectroluxPO12FACAuto
  /\ (op = "setFan" /\ arg \notin (ValidFans \ {kElectroluxPO12FACFanEco})) =>
       getFan(raw) = kElectroluxPO12FACFanAuto

\* setMode(19), whose low four bits are those of Cool, was called while the
\* fan was Eco: the mode is Auto.
C3_Witness ==
  /\ op = "setMode"
  /\ arg = 19
  /\ getMode(raw) = kElectroluxPO12FACAuto
  /\ getFan(raw) = kElectroluxPO12FACFanEco

\* C4: setRaw(buffer, L) makes frame bytes 0..min(L,14)-1 equal to the
\* buffer's and leaves bytes min(L,14)..13 as they were before the call; it
\* validates nothing, so a wrong checksum or a non-enumerated Mode or Fan is
\* stored unchanged.
C4_SetRawCopiesPrefix ==
  [][CallOf("setRaw") =>
       LET n == MinOf(arg'[2], 14)
       IN  \A i \in 0..13 :
             raw'[i] = IF i < n THEN arg'[1][i] ELSE raw[i]]_vars

\* setRaw copied 9 bytes of the all-ones buffer: Mode is 15, Fan is 7, bytes
\* 9..13 are still those of the default frame and the checksum is wrong.
C4_Witness ==
  /\ op = "setRaw"
  /\ arg[2] = 9
  /\ raw[8] = 255
  /\ getMode(raw) = 15
  /\ getFan(raw) = 7
  /\ \A i \in 9..13 : raw[i] = kElectroluxPO12FACDefaultState[i]
  /\ ~validChecksum(raw, 14)

\* C5: from any state, after setTurbo(true): getTurbo() is true, getFan()
\* is High (5) and getTemp() is 18.
C5_TurboForcesFanTemp ==
  (op = "setTurbo" /\ arg = TRUE) =>
    /\ getTurbo(raw)
    /\ getFan(raw) = 5
    /\ getTemp(raw) = 18 * HalfSteps

\* C6: from any state, after setMode(Fan) getMode() is Fan and getFan() is
\* High; setMode with Auto, Cool, Heat or Dry stores that mode and leaves
\* getFan() unchanged.
C6_SetModeFanCoupling ==
  [][CallOf("setMode") =>
       /\ arg' = kElectroluxPO12FACFan =>
            /\ getMode(raw') = kElectroluxPO12FACFan
            /\ getFan(raw') = kElectroluxPO12FACFanHigh
       /\ arg' \in ValidModes \ {kElectroluxPO12FACFan} =>
            /\ getMode(raw') = arg'
            /\ getFan(raw') = getFan(raw)]_vars

\* setMode(Fan) was called on a frame whose Fan field held 7 (stored by
\* setRaw): the mode is Fan and the fan High.
C6_Witness ==
  /\ op = "setMode"
  /\ arg = kElectroluxPO12FACFan
  /\ raw[8] = 255 - 7 + kElectroluxPO12FACFanHigh
  /\ getMode(raw) = kElectroluxPO12FACFan
  /\ getFan(raw) = kElectroluxPO12FACFanHigh

C8_TimerTimesSix ==
  op = "setOffSleepTimer" => getOffSleepTimer(raw) = arg * 6

\* C8, amended: for every 8-bit input h, after setOffSleepTimer(h)
\* getOffSleepTimer() returns (h * 6) modulo 256, which is h * 6 for
\* h in 0..42.
C8_TimerTimesSixMod256 ==
  op = "setOffSleepTimer" =>
    /\ getOffSleepTimer(raw) = (arg * 6) % 256
    /\ arg <= 42 => getOffSleepTimer(raw) = arg * 6

\* setOffSleepTimer(43) was called and 2 (258 - 256) is stored.
C8_Witness ==
  /\ op = "setOffSleepTimer"
  /\ arg = 43
  /\ getOffSleepTimer(raw) = 2

\* C9: right after construction or reset(), from any prior state, the frame
\* equals the fixed default and reads back as Power on, Mode Cool and
\* getTemp() = 24.0.
C9_ResetDefault ==
  op = "stateReset" =>
    /\ raw = kElectroluxPO12FACDefaultState
    /\ getPower(raw)
    /\ getMode(raw) = kElectroluxPO12FACCool
    /\ getTemp(raw) = 24 * HalfSteps

\* C10: toCommon() leaves the frame unchanged; its swingh and swingv are
\* both on or both off, as getSwing() says; and after setPower(p),
\* setMode(m) with m a valid native mode and setTemp(t) with t a whole
\* degree in 18..28 it reports power = p, a mode whose convertMode() is m,
\* celsius = true and degrees = t.
C10_ToCommonRoundTrip ==
  [][CallOf("toCommon") =>
       /\ raw' = raw
       /\ (ret'.swingh # "kOff") = getSwing(raw)
       /\ (ret'.swingv # "kOff") = getSwing(raw)
       /\ ( /\ Len(hist) = 3
            /\ hist[2] \in ValidModes
            /\ hist[3] % HalfSteps = 0
            /\ hist[3] >= kElectroluxPO12FACTempMin * HalfSteps
            /\ hist[3] <= kElectroluxPO12FACTempMax * HalfSteps ) =>
            /\ ret'.power = hist[1]
            /\ convertMode(ret'.mode) = hist[2]
            /\ ret'.celsius = TRUE
            /\ ret'.degrees = hist[3]]_vars

\* Bit k of a byte.
BitOf(b, k) == (b \div (2 ^ k)) % 2

NamedFields == {Power, Mode, Turbo, Follow, Temp, Fan, Swing,
                OffSleepTimer, Sum}

\* Bit k of byte i belongs to one of the fields F.
Covered(F, i, k) ==
  \E f \in F : f.byte = i /\ f.off <= k /\ k < f.off + f.width

\* Frames s and t agree on every bit outside the fields F.
SameOutside(F, s, t) ==
  \A i \in 0..13 :
    \/ s[i] = t[i]
    \/ \A k \in 0..7 : Covered(F, i, k) \/ BitOf(s[i], k) = BitOf(t[i], k)

\* The fields a call may write: its own and its documented side effects.
MayWrite(f, a) ==
  CASE f = "setPower"         -> {Power}
    [] f = "setMode"          -> IF a = kElectroluxPO12FACFan
                                   THEN {Mode, Fan} ELSE {Mode}
    [] f = "setTemp"          -> {Temp}
    [] f = "setFan"           -> {Fan}
    [] f = "setEcono"         -> IF a THEN {Fan} ELSE {}
    [] f = "setSwing"         -> {Swing}
    [] f = "setTurbo"         -> IF a THEN {Turbo, Fan, Temp} ELSE {Turbo}
    [] f = "setFollow"        -> {Follow}
    [] f = "setOffSleepTimer" -> {OffSleepTimer}
    [] f = "getRaw"           -> {Sum}
    [] OTHER                  -> NamedFields

\* C11: from reset(), after any sequence of field-setter and getRaw() calls
\* (no setRaw), every bit outside the named fields (bytes 0-4 and 10-12 and
\* the reserved bits of bytes 5-8) equals the default frame's; each setter
\* changes only the bits of its own field and of its documented side-effect
\* fields (setMode(Fan): Fan; setTurbo(true): Fan, Temp; setEcono(true):
\* Fan), and getRaw() changes only byte 13.
C11_PaddingPreserved ==
  [][/\ SameOutside(NamedFields, raw, kElectroluxPO12FACDefaultState)
     /\ SameOutside(NamedFields, raw', kElectroluxPO12FACDefaultState)
     /\ \A i \in (0..4) \cup (10..12) :
          raw'[i] = kElectroluxPO12FACDefaultState[i]
     /\ calls' # calls => SameOutside(MayWrite(op', arg'), raw, raw')]_vars

\* Power was switched off and turbo on, then getRaw() stored a new checksum:
\* byte 5 still holds its reserved bit 0x20 and byte 6 only Mode and Turbo.
C11_Witness ==
  /\ op = "getRaw"
  /\ raw[5] = 32
  /\ getTurbo(raw)
  /\ raw[6] = 64 + getMode(raw)
  /\ raw[13] # kElectroluxPO12FACDefaultState[13]
  /\ validChecksum(raw, 14)

====
